---------------------------- MODULE Spec2Model ----------------------------
(***************************************************************************)
(* A model of the reactive core of data_studio (src/reactive/var.py):      *)
(* the Refresher, its priority queue of QueueItems and its loop task, and  *)
(* the reactive variable Var with its weak observer set and its disposal.  *)
(*                                                                         *)
(* Further sections model the widgets of src/sdupy/widgets: the            *)
(* background-task control (pyqtgraph.py) and the log, structured-data and *)
(* variable-inspector models (tables.py).                                  *)
(*                                                                         *)
(* Python 3.8+ semantics are assumed for asyncio: CancelledError derives   *)
(* from BaseException, so "except Exception" does not catch it.            *)
(***************************************************************************)
EXTENDS Integers, Sequences, FiniteSets, TLC

VARIABLES
    queue,          \* Refresher.queue: the heap array of asyncio.PriorityQueue
    task,           \* Refresher.task: 0 for None, else an index into tasks
    tasks,          \* every loop task ever created by maybe_start_task
    loopErrors,     \* exceptions the done callback raised into the event loop
    enqueued,       \* history: the n-th element describes the n-th QueueItem
    awaited,        \* history: awaitables in the order the loop awaited them
    skipped,        \* history: awaitables dropped by the "same as next" rule
    failed,         \* history: awaitables that raised an Exception
    lost,           \* history: awaitables dropped with a cancelled/failed task
    lastOp,         \* history: the operation that ran last
    data,           \* Var.data, per Var
    observers,      \* Var._observers (a WeakSet), per Var
    on_dispose,     \* Var.on_dispose, per Var: "None" or a callable
    disposed,       \* Var.disposed, per Var
    kept,           \* Var._kept_references, per Var
    collected,      \* observers that have been garbage collected
    calls,          \* the calls of Var.dispose made so far
    disposeRuns,    \* history: per Var, how often on_dispose was invoked
    lastSet,        \* history: the arguments of the last Var.set
    finalized,      \* per Var: whether __del__ has run, and the item it enqueued
    waiters,        \* the tasks that have called wait_for_var
    paramTask,      \* TaskParameter.task: 0 for None, else an index
    paramTasks,     \* every task created by TaskParameter.start_or_stop
    progress_tracker,   \* TaskParameter.progress_tracker
    refreshers,     \* the show_progress tasks created by run_task, each with
                    \* the launch (the run_task) that created it
    progress_bar,   \* TaskParameterItem.progress_bar: value and format
    start_stop_button,  \* TaskParameterItem.start_stop_button: its text
    records,        \* LogRecordsModel.records, run-length encoded
    handled,        \* history: how many records emit has handled
    peak,           \* history: the greatest length records has had
    original_data,  \* DataTreeModel.original_data
    tree_data,      \* DataTreeModel.data
    query_is_ok,    \* DataTreeModel.query_is_ok
    sort_columns,   \* DataTreeModel._sort_columns
    query,          \* DataTreeModel._query
    recency,        \* history: the columns clicked, the latest click last
    escaped,        \* history: an exception left the last call on the model
    var_rows,       \* VarsModel.vars: the rows of the variable inspector
    cells,          \* what each variable shown in the inspector holds
    lastInsert,     \* history: per title, the latest insert_var
    lastEdit        \* history: the latest setData

loopVars == <<queue, task, tasks, loopErrors, enqueued, awaited, skipped,
              failed, lost>>
refresherVars == <<loopVars, lastOp>>
callerVars == <<waiters, finalized>>
varVars == <<data, observers, on_dispose, disposed, kept, collected,
             calls, disposeRuns, lastSet>>
taskParamVars == <<paramTask, paramTasks, progress_tracker, refreshers,
                   progress_bar, start_stop_button>>
logVars == <<records, handled, peak>>
treeVars == <<original_data, tree_data, query_is_ok, sort_columns, query,
              recency, escaped>>
inspectorVars == <<var_rows, cells, lastInsert, lastEdit>>
widgetVars == <<taskParamVars, logVars, treeVars, inspectorVars>>
vars == <<refresherVars, varVars, callerVars, widgetVars>>

-----------------------------------------------------------------------------
(* Bounds *)

MaxEnq == 4         \* QueueItems created in one behaviour
MaxLiveEnq == 3     \* the same, in behaviours checked under fairness
MaxTaskEnq == 3     \* the same, in behaviours with failing loop tasks
MaxWaitEnq == 2     \* the same, in behaviours with tasks in wait_for_var
MaxWaiters == 2     \* tasks that call wait_for_var
MaxVarEnq == 3      \* the same, in behaviours of a Var and its observers
MaxRefs == 2        \* keep_reference calls on one Var
MaxCalls == 3       \* dispose calls in one behaviour
MaxVarCalls == 1    \* the same, in behaviours of a Var and its observers
MaxFinalEnq == 1    \* QueueItems enqueued directly, in behaviours of finalized Vars
MaxFinalCalls == 1  \* dispose calls in behaviours of finalized Vars

Ids == {"f1", "f2", "f3", "f4"}     \* identities passed to add_coroutine
IdOrder == [f1 |-> 1, f2 |-> 2, f3 |-> 3, f4 |-> 4]
DataValues == {"a", "b"}
Observers == {"o1", "o2"}
Resources == {"r1", "r2"}

-----------------------------------------------------------------------------
(* QueueItem *)

DefaultPriority == 1

QueueItem(priority, id, awaitable) ==
    [priority |-> priority, id |-> id, awaitable |-> awaitable]

NoItem == [priority |-> 0, id |-> "None", awaitable |-> 0]

Lt(self, other) == self.priority < other.priority

-----------------------------------------------------------------------------
(* asyncio.PriorityQueue: heapq.heappush / heapq.heappop on a list, with    *)
(* positions counted from 0 as in heapq (the sequence is 1-based).          *)

At(heap, pos) == heap[pos + 1]

Put(heap, pos, item) == [heap EXCEPT ![pos + 1] = item]

RECURSIVE SiftDown(_, _, _, _)
SiftDown(heap, startpos, pos, newitem) ==
    IF pos > startpos
    THEN LET parentpos == (pos - 1) \div 2
             parent == At(heap, parentpos)
         IN  IF Lt(newitem, parent)
             THEN SiftDown(Put(heap, pos, parent), startpos, parentpos, newitem)
             ELSE Put(heap, pos, newitem)
    ELSE Put(heap, pos, newitem)

RECURSIVE SiftUp(_, _, _, _)
SiftUp(heap, startpos, pos, newitem) ==
    LET endpos == Len(heap)
        childpos == 2 * pos + 1
        rightpos == childpos + 1
    IN  IF childpos < endpos
        THEN LET c == IF rightpos < endpos
                         /\ ~Lt(At(heap, childpos), At(heap, rightpos))
                      THEN rightpos ELSE childpos
             IN  SiftUp(Put(heap, pos, At(heap, c)), startpos, c, newitem)
        ELSE SiftDown(Put(heap, pos, newitem), startpos, pos, newitem)

HeapPush(heap, item) ==
    SiftDown(Append(heap, item), 0, Len(heap), item)

\* the item heappop returns
HeapTop(heap) == IF Len(heap) = 1 THEN heap[1] ELSE At(heap, 0)

\* the heap heappop leaves
HeapRest(heap) ==
    LET lastelt == heap[Len(heap)]
        rest == SubSeq(heap, 1, Len(heap) - 1)
    IN  IF rest # <<>> THEN SiftUp(Put(rest, 0, lastelt), 0, 0, lastelt)
        ELSE rest

-----------------------------------------------------------------------------
(* rethrow: the done callback of the loop task.  f is the finished task;    *)
(* the result is the exception raised into the event loop, or "None".       *)

\* rethrow without the test of f.cancelled() and of CancelledError
rethrow_everything(f) ==
    IF f.cancelled THEN "CancelledError" ELSE f.exception

rethrow(f) ==
    IF f.cancelled THEN "None"
    ELSE IF f.exception # "None"
         THEN IF f.exception = "CancelledError" THEN "None" ELSE f.exception
         ELSE "None"

-----------------------------------------------------------------------------
(* Refresher *)

\* asyncio.ensure_future(self.run()): a task that has not run a step yet
NewTask ==
    [state |-> "pending", update |-> NoItem, update_next |-> NoItem,
     must_cancel |-> FALSE, cancelled |-> FALSE, exception |-> "None",
     callback |-> "none"]

Done(t) == tasks[t].state = "finished"

\* maybe_start_task without the test of self.task
maybe_start_task_unguarded(r) ==
    [r EXCEPT !.task = Len(r.tasks) + 1, !.tasks = Append(r.tasks, NewTask)]

\* maybe_start_task that starts the first loop task only
maybe_start_task_once(r) ==
    IF r.task = 0
    THEN [r EXCEPT !.task = Len(r.tasks) + 1, !.tasks = Append(r.tasks, NewTask)]
    ELSE r

\* maybe_start_task, on the record r of the Refresher's fields
maybe_start_task(r) ==
    IF r.task = 0 \/ r.tasks[r.task].state = "finished"
    THEN [r EXCEPT !.task = Len(r.tasks) + 1, !.tasks = Append(r.tasks, NewTask)]
    ELSE r

\* add_coroutine, on the record r of the Refresher's fields
add_coroutine(r, hash, coro) ==
    maybe_start_task(
        [r EXCEPT !.queue = HeapPush(r.queue, QueueItem(DefaultPriority, hash, coro))])

Refresher == [queue |-> queue, task |-> task, tasks |-> tasks]

\* Refresher.run from the top of "while True" up to its next suspension:
\* either the loop awaits an update (exit = FALSE) or QueueEmpty ends it.
RECURSIVE run(_, _, _)
run(update_next, q, sk) ==
    IF update_next = NoItem /\ q = <<>>
    THEN [exit |-> TRUE, update |-> NoItem, update_next |-> NoItem,
          queue |-> q, skipped |-> sk]
    ELSE LET update == IF update_next # NoItem THEN update_next ELSE HeapTop(q)
             q1 == IF update_next # NoItem THEN q ELSE HeapRest(q)
         IN  IF q1 = <<>>
             THEN [exit |-> FALSE, update |-> update, update_next |-> NoItem,
                   queue |-> q1, skipped |-> sk]
             ELSE LET nxt == HeapTop(q1)
                      q2 == HeapRest(q1)
                  IN  IF nxt.id = update.id
                      THEN run(nxt, q2, sk \cup {update.awaitable})
                      ELSE [exit |-> FALSE, update |-> update, update_next |-> nxt,
                            queue |-> q2, skipped |-> sk]

\* the loop task t runs from update_next to its next suspension
Resume(t, update_next) ==
    LET s == run(update_next, queue, {})
    IN  /\ queue' = s.queue
        /\ skipped' = skipped \cup s.skipped
        /\ IF s.exit
           THEN /\ tasks' = [tasks EXCEPT ![t].state = "finished",
                                          ![t].update = NoItem,
                                          ![t].update_next = NoItem,
                                          ![t].callback = "scheduled"]
                /\ awaited' = awaited
           ELSE /\ tasks' = [tasks EXCEPT ![t].state = "awaiting",
                                          ![t].update = s.update,
                                          ![t].update_next = s.update_next]
                /\ awaited' = Append(awaited, s.update.awaitable)

Held(t) == {tasks[t].update.awaitable, tasks[t].update_next.awaitable} \ {0}

\* the loop task t ends without finishing its loop
Abandon(t, cancelled, exception) ==
    /\ tasks' = [tasks EXCEPT ![t].state = "finished",
                              ![t].update = NoItem,
                              ![t].update_next = NoItem,
                              ![t].must_cancel = FALSE,
                              ![t].cancelled = cancelled,
                              ![t].exception = exception,
                              ![t].callback = "scheduled"]
    /\ lost' = lost \cup (Held(t) \ {tasks[t].update.awaitable})

\* a caller enqueues an update directly
AddCoroutine(hash) ==
    /\ LET r == add_coroutine(Refresher, hash, Len(enqueued) + 1)
       IN  /\ queue' = r.queue
           /\ task' = r.task
           /\ tasks' = r.tasks
    /\ enqueued' = Append(enqueued, [id |-> hash, b2b |-> lastOp = "add_coroutine"])
    /\ lastOp' = "add_coroutine"
    /\ UNCHANGED <<widgetVars, callerVars>>
    /\ UNCHANGED <<loopErrors, awaited, skipped, failed, lost, varVars>>

\* the event loop runs the first step of the loop task
TaskStart(t) ==
    /\ tasks[t].state = "pending"
    /\ ~tasks[t].must_cancel
    /\ Resume(t, NoItem)
    /\ lastOp' = "loop"
    /\ UNCHANGED <<widgetVars, callerVars>>
    /\ UNCHANGED <<task, loopErrors, enqueued, failed, lost, varVars>>

\* "await update.awaitable" returns
UpdateReturns(t) ==
    /\ tasks[t].state = "awaiting"
    /\ ~tasks[t].must_cancel
    /\ Resume(t, tasks[t].update_next)
    /\ lastOp' = "loop"
    /\ UNCHANGED <<widgetVars, callerVars>>
    /\ UNCHANGED <<task, loopErrors, enqueued, failed, lost, varVars>>

\* "await update.awaitable" raises an Exception and nothing catches it
UpdateRaisesUncaught(t) ==
    /\ tasks[t].state = "awaiting"
    /\ ~tasks[t].must_cancel
    /\ failed' = failed \cup {tasks[t].update.awaitable}
    /\ tasks' = [tasks EXCEPT ![t].state = "finished",
                              ![t].update = NoItem,
                              ![t].update_next = NoItem,
                              ![t].exception = "Exception",
                              ![t].callback = "scheduled"]
    /\ lastOp' = "loop"
    /\ UNCHANGED <<widgetVars, callerVars>>
    /\ UNCHANGED <<queue, task, loopErrors, enqueued, awaited, skipped, lost,
                   varVars>>

\* "await update.awaitable" raises an Exception: caught at line 69
UpdateRaises(t) ==
    /\ tasks[t].state = "awaiting"
    /\ ~tasks[t].must_cancel
    /\ failed' = failed \cup {tasks[t].update.awaitable}
    /\ Resume(t, tasks[t].update_next)
    /\ lastOp' = "loop"
    /\ UNCHANGED <<widgetVars, callerVars>>
    /\ UNCHANGED <<task, loopErrors, enqueued, lost, varVars>>

\* "await update.awaitable" raises a BaseException that is not an Exception:
\* it leaves run() and becomes the task's exception
UpdateRaisesBase(t) ==
    /\ tasks[t].state = "awaiting"
    /\ ~tasks[t].must_cancel
    /\ Abandon(t, FALSE, "BaseException")
    /\ lastOp' = "loop"
    /\ UNCHANGED <<widgetVars, callerVars>>
    /\ UNCHANGED <<queue, task, loopErrors, enqueued, awaited, skipped, failed,
                   varVars>>

\* somebody calls cancel() on the loop task
CancelTask(t) ==
    /\ ~Done(t)
    /\ ~tasks[t].must_cancel
    /\ tasks' = [tasks EXCEPT ![t].must_cancel = TRUE]
    /\ UNCHANGED <<widgetVars, callerVars>>
    /\ UNCHANGED <<queue, task, loopErrors, enqueued, awaited, skipped, failed,
                   lost, lastOp, varVars>>

\* CancelledError is thrown into run() at its suspension point
TaskCancelled(t) ==
    /\ ~Done(t)
    /\ tasks[t].must_cancel
    /\ Abandon(t, TRUE, "None")
    /\ lastOp' = "loop"
    /\ UNCHANGED <<widgetVars, callerVars>>
    /\ UNCHANGED <<queue, task, loopErrors, enqueued, awaited, skipped, failed,
                   varVars>>

\* the event loop calls the done callback of the finished task
DoneCallback(t) ==
    /\ tasks[t].callback = "scheduled"
    /\ LET e == rethrow(tasks[t])
       IN  /\ tasks' = [tasks EXCEPT ![t].callback =
                            IF e = "None" THEN "returned" ELSE "raised"]
           /\ loopErrors' = IF e = "None" THEN loopErrors
                            ELSE Append(loopErrors, e)
    /\ UNCHANGED <<widgetVars, callerVars>>
    /\ UNCHANGED <<queue, task, enqueued, awaited, skipped, failed, lost, lastOp,
                   varVars>>

RefresherInit ==
    /\ queue = <<>>
    /\ task = 0
    /\ tasks = <<>>
    /\ loopErrors = <<>>
    /\ enqueued = <<>>
    /\ awaited = <<>>
    /\ skipped = {}
    /\ failed = {}
    /\ lost = {}
    /\ lastOp = "none"
    /\ waiters = <<>>

NoSet == [var |-> 0, data |-> "None"]

NoVars ==
    /\ data = <<>>
    /\ observers = <<>>
    /\ on_dispose = <<>>
    /\ disposed = <<>>
    /\ kept = <<>>
    /\ collected = {}
    /\ calls = <<>>
    /\ disposeRuns = <<>>
    /\ lastSet = NoSet
    /\ finalized = <<>>

\* Identities are interchangeable: a caller that uses a new identity takes
\* the first unused one.
UsedIds == {enqueued[n].id : n \in DOMAIN enqueued}

NextId(hash) ==
    hash \in UsedIds \/ \A other \in Ids \ UsedIds : IdOrder[hash] <= IdOrder[other]

\* TaskParameter.__init__ followed by TaskParameterItem.__init__, whose last
\* statement is refresh(param, None) with no task and no tracker
TaskParameterInit ==
    /\ paramTask = 0
    /\ paramTasks = <<>>
    /\ progress_tracker = <<>>
    /\ refreshers = <<>>
    /\ progress_bar = [value |-> 0, format |-> ""]
    /\ start_stop_button = "start"

\* LogRecordsModel.__init__
LogRecordsInit ==
    /\ records = <<>>
    /\ handled = 0
    /\ peak = 0

\* the values of a cell and the tables the model is given; a table has its
\* column names in order and its rows, each row in the order of the columns
CellValues == {0, 1}

Table(columns, rows) == [columns |-> columns, rows |-> rows]

Tables ==
    { Table(<<1, 2, 3>>, <<<<1, 0, 1>>, <<0, 1, 1>>, <<1, 0, 0>>, <<0, 0, 1>>>>),
      Table(<<1, 2, 3>>, <<<<0, 1, 0>>, <<1, 1, 0>>, <<1, 0, 1>>>>),
      Table(<<2, 3>>, <<<<1, 0>>, <<0, 0>>, <<0, 1>>>>) }

\* DataTreeModel.__init__, on a table given in place of the random one
DataTreeInit(table) ==
    /\ original_data = table
    /\ tree_data = table
    /\ query_is_ok = TRUE
    /\ sort_columns = <<>>
    /\ query = "None"
    /\ recency = <<>>
    /\ escaped = FALSE

\* the titles, variables and conversion functions given to insert_var
Titles == {"t1", "t2"}
InspectedVars == {"v1", "v2"}
Conversions == {"int", "str", "None"}

NoInsert == [var |-> "none", to_value |-> "none"]
NoEdit == [row |-> 0, value |-> "", set_raises |-> FALSE, escaped |-> FALSE]

\* a plain value or a captured exception held by a variable
Holds(kind, type, repr) == [kind |-> kind, type |-> type, repr |-> repr]

\* VarsModel.__init__, and variables that each hold the integer 0
VarsModelInit ==
    /\ var_rows = <<>>
    /\ cells = [v \in InspectedVars |-> Holds("value", "int", "0")]
    /\ lastInsert = [title \in Titles |-> NoInsert]
    /\ lastEdit = NoEdit

WidgetsInit ==
    /\ TaskParameterInit
    /\ LogRecordsInit
    /\ DataTreeInit(Table(<<>>, <<>>))
    /\ VarsModelInit

\* The Refresher driven directly through add_coroutine, updates returning or
\* raising an Exception
Init == RefresherInit /\ NoVars /\ WidgetsInit

Next ==
    \/ \E hash \in Ids :
        /\ Len(enqueued) < MaxEnq
        /\ NextId(hash)
        /\ AddCoroutine(hash)
    \/ \E t \in DOMAIN tasks : TaskStart(t)
    \/ \E t \in DOMAIN tasks : UpdateReturns(t)
    \/ \E t \in DOMAIN tasks : UpdateRaises(t)

Spec == Init /\ [][Next]_vars

\* The event loop runs the loop task when it is ready, and every awaitable
\* terminates: it returns or it raises an Exception.
FairLoop ==
    WF_vars(\E t \in DOMAIN tasks :
                TaskStart(t) \/ UpdateReturns(t) \/ UpdateRaises(t))

NextLive ==
    \/ \E hash \in Ids :
        /\ Len(enqueued) < MaxLiveEnq
        /\ NextId(hash)
        /\ AddCoroutine(hash)
    \/ \E t \in DOMAIN tasks : TaskStart(t)
    \/ \E t \in DOMAIN tasks : UpdateReturns(t)
    \/ \E t \in DOMAIN tasks : UpdateRaises(t)

SpecLive == Init /\ [][NextLive]_vars /\ FairLoop

\* The same with loop tasks that are cancelled or fail, and the done callback
NextTask ==
    \/ \E hash \in Ids :
        /\ Len(enqueued) < MaxTaskEnq
        /\ NextId(hash)
        /\ AddCoroutine(hash)
    \/ \E t \in DOMAIN tasks : TaskStart(t)
    \/ \E t \in DOMAIN tasks : UpdateReturns(t)
    \/ \E t \in DOMAIN tasks : UpdateRaises(t)
    \/ \E t \in DOMAIN tasks : UpdateRaisesBase(t)
    \/ \E t \in DOMAIN tasks : CancelTask(t)
    \/ \E t \in DOMAIN tasks : TaskCancelled(t)
    \/ \E t \in DOMAIN tasks : DoneCallback(t)

SpecTask == Init /\ [][NextTask]_vars

\* what "await t" gives for a loop task t that is done
Outcome(t) ==
    IF tasks[t].cancelled THEN "cancelled"
    ELSE IF tasks[t].exception # "None" THEN "raised"
    ELSE "returned"

\* a task runs wait_for_var(var) up to "await refresher.task": awaiting None
\* raises TypeError, awaiting a task that is done ends at once, and awaiting
\* a loop task that is not done suspends the caller on that task
WaitForVar ==
    /\ waiters' = Append(waiters,
            IF task = 0
            THEN [state |-> "raised", on |-> 0, must_cancel |-> FALSE]
            ELSE IF Done(task)
            THEN [state |-> Outcome(task), on |-> task, must_cancel |-> FALSE]
            ELSE [state |-> "waiting", on |-> task, must_cancel |-> FALSE])
    /\ lastOp' = "wait_for_var"
    /\ UNCHANGED <<loopVars, varVars, finalized, widgetVars>>

\* somebody calls cancel() on the task suspended in wait_for_var (a timeout
\* of asyncio.wait_for does the same): Task.cancel() forwards the request
\* to the awaitable the task is suspended on, which is the loop task
CancelWaiter(w) ==
    /\ waiters[w].state = "waiting"
    /\ ~waiters[w].must_cancel
    /\ waiters' = [waiters EXCEPT ![w].must_cancel = TRUE]
    /\ tasks' = IF Done(waiters[w].on) THEN tasks
                ELSE [tasks EXCEPT ![waiters[w].on].must_cancel = TRUE]
    /\ UNCHANGED <<queue, task, loopErrors, enqueued, awaited, skipped, failed,
                   lost, lastOp, varVars, finalized, widgetVars>>

\* the loop task is done and the event loop wakes the task that awaits it
WaiterResumes(w) ==
    /\ waiters[w].state = "waiting"
    /\ Done(waiters[w].on)
    /\ waiters' = [waiters EXCEPT ![w].state =
                        IF waiters[w].must_cancel THEN "cancelled"
                        ELSE Outcome(waiters[w].on)]
    /\ lastOp' = "wait_for_var"
    /\ UNCHANGED <<loopVars, varVars, finalized, widgetVars>>

\* The Refresher with tasks that wait in wait_for_var and may be cancelled
\* there; nobody calls cancel() on the loop task itself
NextWait ==
    \/ \E hash \in Ids :
        /\ Len(enqueued) < MaxWaitEnq
        /\ NextId(hash)
        /\ AddCoroutine(hash)
    \/ \E t \in DOMAIN tasks : TaskStart(t)
    \/ \E t \in DOMAIN tasks : UpdateReturns(t)
    \/ \E t \in DOMAIN tasks : UpdateRaises(t)
    \/ \E t \in DOMAIN tasks : TaskCancelled(t)
    \/ Len(waiters) < MaxWaiters /\ WaitForVar
    \/ \E w \in DOMAIN waiters : CancelWaiter(w)
    \/ \E w \in DOMAIN waiters : WaiterResumes(w)

SpecWait == Init /\ [][NextWait]_vars

-----------------------------------------------------------------------------
(* Var *)

VarIds == DOMAIN data

\* a Var that exists; one that __del__ has finalized has done |-> TRUE and
\* the number of the QueueItem that __del__ enqueued, 0 when it enqueued none
NotFinalized == [done |-> FALSE, item |-> 0]

\* Var.__init__ for n Vars; on_dispose is assigned by the owner afterwards
VarInit(n) ==
    /\ data = [v \in 1..n |-> "None"]
    /\ observers = [v \in 1..n |-> {}]
    /\ on_dispose \in [1..n -> {"None", "cleanup"}]
    /\ disposed = [v \in 1..n |-> FALSE]
    /\ kept = [v \in 1..n |-> <<>>]
    /\ collected = {}
    /\ calls = <<>>
    /\ disposeRuns = [v \in 1..n |-> 0]
    /\ lastSet = NoSet
    /\ finalized = [v \in 1..n |-> NotFinalized]

\* the orders in which a set can be iterated
Orders(S) ==
    {order \in [1..Cardinality(S) -> S] :
        \A i, j \in DOMAIN order : i # j => order[i] # order[j]}

\* the loop of Var.set: add_coroutine(corof, corof()) for order[k], ...
RECURSIVE notify(_, _, _, _)
notify(r, order, k, coro) ==
    IF k > Len(order) THEN r
    ELSE notify(add_coroutine(r, order[k], coro), order, k + 1, coro + 1)

\* Var.set that runs nothing for its observers
set_silent(r, order, k, coro) == r

\* Var.set, its loop over self._observers
set_observers(r, order, k, coro) == notify(r, order, k, coro)

Set(v, new_data) ==
    /\ data' = [data EXCEPT ![v] = new_data]
    /\ \E order \in Orders(observers[v]) :
        LET r == set_observers(Refresher, order, 1, Len(enqueued) + 1)
            first == lastOp = "add_coroutine"
        IN  /\ queue' = r.queue
            /\ task' = r.task
            /\ tasks' = r.tasks
            /\ enqueued' = enqueued \o
                    [k \in 1..Len(order) |->
                        [id |-> order[k], b2b |-> IF k = 1 THEN first ELSE TRUE]]
    /\ lastSet' = [var |-> v, data |-> new_data]
    /\ lastOp' = "set"
    /\ UNCHANGED <<widgetVars, callerVars>>
    /\ UNCHANGED <<loopErrors, awaited, skipped, failed, lost, observers,
                   on_dispose, disposed, kept, collected, calls, disposeRuns>>

AddObserver(v, observer) ==
    /\ observer \notin collected
    /\ observers' = [observers EXCEPT ![v] = @ \cup {observer}]
    /\ lastOp' = "add_observer"
    /\ UNCHANGED <<widgetVars, callerVars>>
    /\ UNCHANGED <<queue, task, tasks, loopErrors, enqueued, awaited, skipped,
                   failed, lost, data, on_dispose, disposed, kept, collected,
                   calls, disposeRuns, lastSet>>

\* identities that a QueueItem still refers to
PendingIds ==
    {queue[i].id : i \in DOMAIN queue}
        \cup {tasks[t].update.id : t \in DOMAIN tasks}
        \cup {tasks[t].update_next.id : t \in DOMAIN tasks}

\* a set that keeps its members after they have been collected
StrongSetDrop(members, o) == members

\* weakref.WeakSet: a member that has been collected leaves the set
WeakSetDrop(members, o) == members \ {o}

\* the observer loses its last referrer and is collected
Collect(observer) ==
    /\ observer \notin collected
    /\ observer \notin PendingIds
    /\ collected' = collected \cup {observer}
    /\ observers' = [v \in VarIds |-> WeakSetDrop(observers[v], observer)]
    /\ lastOp' = "collect"
    /\ UNCHANGED <<widgetVars, callerVars>>
    /\ UNCHANGED <<queue, task, tasks, loopErrors, enqueued, awaited, skipped,
                   failed, lost, data, on_dispose, disposed, kept, calls,
                   disposeRuns, lastSet>>

KeepReference(v, o) ==
    /\ Len(kept[v]) < MaxRefs
    /\ kept' = [kept EXCEPT ![v] = Append(@, o)]
    /\ lastOp' = "keep_reference"
    /\ UNCHANGED <<widgetVars, callerVars>>
    /\ UNCHANGED <<loopVars, data, observers, on_dispose, disposed, collected,
                   calls, disposeRuns, lastSet>>

\* a call of Var.dispose: it returns at once, or it suspends in
\* "await self.on_dispose()"
DisposeCall(v) ==
    /\ LET after == {c \in DOMAIN calls : calls[c].state # "awaiting"}
           call(state, ran) ==
               [var |-> v, state |-> state, ran |-> ran, after |-> after]
       IN  IF ~disposed[v]
           THEN IF on_dispose[v] # "None"
                THEN /\ calls' = Append(calls, call("awaiting", TRUE))
                     /\ disposeRuns' = [disposeRuns EXCEPT ![v] = @ + 1]
                     /\ UNCHANGED disposed
                ELSE /\ calls' = Append(calls, call("returned", FALSE))
                     /\ disposed' = [disposed EXCEPT ![v] = TRUE]
                     /\ UNCHANGED disposeRuns
           ELSE /\ calls' = Append(calls, call("returned", FALSE))
                /\ UNCHANGED <<disposed, disposeRuns>>
    /\ lastOp' = "dispose"
    /\ UNCHANGED <<widgetVars, callerVars>>
    /\ UNCHANGED <<loopVars, data, observers, on_dispose, kept, collected,
                   lastSet>>

\* Var.dispose that also drops the kept references
ReleasingDisposeReturns(c) ==
    /\ calls[c].state = "awaiting"
    /\ disposed' = [disposed EXCEPT ![calls[c].var] = TRUE]
    /\ kept' = [kept EXCEPT ![calls[c].var] = <<>>]
    /\ calls' = [calls EXCEPT ![c].state = "returned"]
    /\ lastOp' = "dispose"
    /\ UNCHANGED <<widgetVars, callerVars>>
    /\ UNCHANGED <<loopVars, data, observers, on_dispose, collected,
                   disposeRuns, lastSet>>

\* Var.dispose that forgets to set self.disposed
ForgetfulDisposeReturns(c) ==
    /\ calls[c].state = "awaiting"
    /\ calls' = [calls EXCEPT ![c].state = "returned"]
    /\ lastOp' = "dispose"
    /\ UNCHANGED <<widgetVars, callerVars>>
    /\ UNCHANGED <<loopVars, data, observers, on_dispose, disposed, kept,
                   collected, disposeRuns, lastSet>>

\* on_dispose returns: the call sets self.disposed and returns
DisposeReturns(c) ==
    /\ calls[c].state = "awaiting"
    /\ disposed' = [disposed EXCEPT ![calls[c].var] = TRUE]
    /\ calls' = [calls EXCEPT ![c].state = "returned"]
    /\ lastOp' = "dispose"
    /\ UNCHANGED <<widgetVars, callerVars>>
    /\ UNCHANGED <<loopVars, data, observers, on_dispose, kept, collected,
                   disposeRuns, lastSet>>

\* on_dispose raises: the exception leaves dispose before line 116
DisposeRaises(c) ==
    /\ calls[c].state = "awaiting"
    /\ calls' = [calls EXCEPT ![c].state = "raised"]
    /\ lastOp' = "dispose"
    /\ UNCHANGED <<widgetVars, callerVars>>
    /\ UNCHANGED <<loopVars, data, observers, on_dispose, disposed, kept,
                   collected, disposeRuns, lastSet>>

\* Var.__del__: the last reference to the Var v is gone, so no dispose call
\* on it is suspended; an undisposed Var with an on_dispose action enqueues
\* the coroutine self.on_dispose() under the identity self.on_dispose
Finalize(v) ==
    /\ ~finalized[v].done
    /\ \A c \in DOMAIN calls : calls[c].var = v => calls[c].state # "awaiting"
    /\ IF ~disposed[v] /\ on_dispose[v] # "None"
       THEN LET r == add_coroutine(Refresher, on_dispose[v], Len(enqueued) + 1)
            IN  /\ queue' = r.queue
                /\ task' = r.task
                /\ tasks' = r.tasks
                /\ enqueued' = Append(enqueued,
                        [id |-> on_dispose[v], b2b |-> lastOp = "add_coroutine"])
                /\ finalized' = [finalized EXCEPT
                        ![v] = [done |-> TRUE, item |-> Len(enqueued) + 1]]
                /\ lastOp' = "add_coroutine"
       ELSE /\ finalized' = [finalized EXCEPT ![v].done = TRUE]
            /\ lastOp' = "__del__"
            /\ UNCHANGED <<queue, task, tasks, enqueued>>
    /\ UNCHANGED <<loopErrors, awaited, skipped, failed, lost, varVars,
                   waiters, widgetVars>>

\* One Var with its observers, set from outside, and the Refresher
InitVar == RefresherInit /\ VarInit(1) /\ WidgetsInit

NextVar ==
    \/ \E v \in VarIds, new_data \in DataValues :
        /\ Len(enqueued) + Cardinality(observers[v]) <= MaxVarEnq
        /\ Set(v, new_data)
    \/ \E v \in VarIds, observer \in Observers : AddObserver(v, observer)
    \/ \E observer \in Observers : Collect(observer)
    \/ \E v \in VarIds : Len(calls) < MaxVarCalls /\ DisposeCall(v)
    \/ \E c \in DOMAIN calls : DisposeReturns(c)
    \/ \E c \in DOMAIN calls : DisposeRaises(c)
    \/ \E t \in DOMAIN tasks : TaskStart(t)
    \/ \E t \in DOMAIN tasks : UpdateReturns(t)

SpecVar == InitVar /\ [][NextVar]_vars

\* One Var, its kept references and its disposal
NextDispose ==
    \/ \E v \in VarIds, o \in Resources : KeepReference(v, o)
    \/ \E v \in VarIds : Len(calls) < MaxCalls /\ DisposeCall(v)
    \/ \E c \in DOMAIN calls : DisposeReturns(c)
    \/ \E c \in DOMAIN calls : DisposeRaises(c)

SpecDispose == InitVar /\ [][NextDispose]_vars

\* Two Vars, each disposed or not, that are finalized, and the Refresher
InitFinal == RefresherInit /\ VarInit(2) /\ WidgetsInit

NextFinal ==
    \/ \E v \in VarIds : Finalize(v)
    \/ \E v \in VarIds :
        /\ Len(calls) < MaxFinalCalls
        /\ ~finalized[v].done
        /\ DisposeCall(v)
    \/ \E c \in DOMAIN calls : DisposeReturns(c)
    \/ \E hash \in Ids :
        /\ Len(enqueued) - Cardinality({v \in VarIds : finalized[v].item # 0})
                < MaxFinalEnq
        /\ NextId(hash)
        /\ AddCoroutine(hash)
    \/ \E t \in DOMAIN tasks : TaskStart(t)
    \/ \E t \in DOMAIN tasks : UpdateReturns(t)

SpecFinal == InitFinal /\ [][NextFinal]_vars

-----------------------------------------------------------------------------
(* Properties of the Refresher *)

Awaited == {awaited[i] : i \in DOMAIN awaited}

\* every loop task has finished
Quiet == tasks # <<>> /\ \A t \in DOMAIN tasks : Done(t)

\* no loop task was cancelled or ended with an exception
NoAbort ==
    \A t \in DOMAIN tasks :
        /\ ~tasks[t].must_cancel
        /\ ~tasks[t].cancelled
        /\ tasks[t].exception = "None"

\* items n and n + 1 have the same identity and were enqueued one right
\* after the other, with no step of the loop in between
BackToBack(n) ==
    /\ n + 1 \in DOMAIN enqueued
    /\ enqueued[n + 1].b2b
    /\ enqueued[n + 1].id = enqueued[n].id

SameIdFollows(n) ==
    n + 1 \in DOMAIN enqueued /\ enqueued[n + 1].id = enqueued[n].id

\* C1: Coalescing.  Of two updates with the same identity enqueued back to
\* back, the first is never awaited, and once the loop has drained the queue
\* the second has been awaited (unless a further update of that identity
\* followed it).
C1_Coalescing ==
    \A n \in DOMAIN enqueued :
        BackToBack(n) =>
            /\ n \notin Awaited
            /\ (Quiet /\ ~SameIdFollows(n + 1)) => (n + 1) \in Awaited

DistinctIds ==
    \A m, n \in DOMAIN enqueued : m # n => enqueued[m].id # enqueued[n].id

\* C2: Ordering.  Updates with pairwise different identities are awaited in
\* the order in which they were enqueued.
C2_EnqueueOrder ==
    DistinctIds =>
        \A i, j \in DOMAIN awaited : i < j => awaited[i] < awaited[j]

\* C3: Update isolation.  An Exception raised by an update never becomes the
\* loop task's exception and never reaches the event loop, and the loop goes
\* on: when the loop tasks have finished without being cancelled, the queue
\* is empty and every update enqueued was awaited or coalesced.
C3_UpdateIsolation ==
    /\ \A t \in DOMAIN tasks : tasks[t].exception # "Exception"
    /\ \A i \in DOMAIN loopErrors : loopErrors[i] # "Exception"
    /\ (failed # {} /\ Quiet /\ NoAbort) =>
            /\ queue = <<>>
            /\ \A n \in DOMAIN enqueued : n \in Awaited \cup skipped

\* the first of three updates enqueued together raised, and the other two
\* were awaited after it
C3_Witness ==
    /\ Len(enqueued) = 3
    /\ enqueued[2].b2b /\ enqueued[3].b2b
    /\ DistinctIds
    /\ failed = {1}
    /\ awaited = <<1, 2, 3>>
    /\ Quiet /\ NoAbort

Active == {t \in DOMAIN tasks : ~Done(t)}

\* C5: at most one loop task is active at any time.
C5_AtMostOneLoopTask == Cardinality(Active) <= 1

\* an update was enqueued while the second loop task was awaiting one
C5_Witness ==
    \E t \in DOMAIN tasks :
        /\ t > 1
        /\ tasks[t].state = "awaiting"
        /\ queue # <<>>
        /\ enqueued[Len(enqueued)].b2b = FALSE
        /\ lastOp = "add_coroutine"

CallbackRan(t) == tasks[t].callback \in {"returned", "raised"}

\* C10: Loop-task failure policy.  The done callback raises nothing for a
\* cancelled task and for a task that finished normally, and re-raises the
\* exception of a task that finished with any other exception.
C10_RethrowPolicy ==
    /\ \A t \in DOMAIN tasks :
        CallbackRan(t) =>
            /\ tasks[t].cancelled => tasks[t].callback = "returned"
            /\ (~tasks[t].cancelled /\ tasks[t].exception = "None")
                    => tasks[t].callback = "returned"
            /\ (~tasks[t].cancelled
                /\ tasks[t].exception \notin {"None", "CancelledError"})
                    => tasks[t].callback = "raised"
    /\ Len(loopErrors) = Cardinality({t \in DOMAIN tasks : tasks[t].callback = "raised"})
    /\ \A i \in DOMAIN loopErrors :
        \E t \in DOMAIN tasks :
            /\ tasks[t].callback = "raised"
            /\ tasks[t].exception = loopErrors[i]

\* the callback has run for a cancelled task, a failed task and a task that
\* finished normally
C10_Witness ==
    /\ \E t \in DOMAIN tasks : CallbackRan(t) /\ tasks[t].cancelled
    /\ \E t \in DOMAIN tasks : CallbackRan(t) /\ tasks[t].exception = "BaseException"
    /\ \E t \in DOMAIN tasks :
        CallbackRan(t) /\ ~tasks[t].cancelled /\ tasks[t].exception = "None"

-----------------------------------------------------------------------------
(* Properties of Var *)

\* the awaitables that a step has enqueued
NewItems == (Len(enqueued) + 1)..Len(enqueued')

InQueue(q, n, id) ==
    \E i \in DOMAIN q : q[i].awaitable = n /\ q[i].id = id

\* C4: Var.set stores the new value, enqueues exactly one update per observer
\* registered at the call, each on the Refresher's queue with a loop task to
\* run it, and no update is awaited inside the call.
C4_SetSchedules ==
    [][lastOp' = "set" =>
        LET v == lastSet'.var
        IN  /\ data'[v] = lastSet'.data
            /\ Len(enqueued') = Len(enqueued) + Cardinality(observers[v])
            /\ {enqueued'[n].id : n \in NewItems} = observers[v]
            /\ \A n \in NewItems : InQueue(queue', n, enqueued'[n].id)
            /\ awaited' = awaited
            /\ NewItems # {} => (task' # 0 /\ tasks'[task'].state # "finished")
      ]_vars

\* set has just notified two observers while the loop was awaiting an update
C4_Witness ==
    /\ lastOp = "set"
    /\ Cardinality(observers[1]) = 2
    /\ Len(queue) >= 2
    /\ \E t \in DOMAIN tasks : tasks[t].state = "awaiting"

CallsOn(v) == {c \in DOMAIN calls : calls[c].var = v}

\* every call of dispose on v began after the calls before it had ended
Sequential(v) ==
    \A c \in CallsOn(v) : {b \in CallsOn(v) : b < c} \subseteq calls[c].after

FirstCallOn(v) == CHOOSE c \in CallsOn(v) : \A b \in CallsOn(v) : c <= b

\* C6: Disposal exactly-once.  When dispose is called on a Var with an
\* on_dispose action, returns, and is then called again, on_dispose has been
\* invoked exactly once.
C6_DisposeOnce ==
    \A v \in VarIds :
        (/\ on_dispose[v] # "None"
         /\ Cardinality(CallsOn(v)) >= 2
         /\ Sequential(v)
         /\ calls[FirstCallOn(v)].state = "returned")
            => disposeRuns[v] = 1

\* dispose was called twice in a row on a Var with an on_dispose action
C6_Witness ==
    /\ on_dispose[1] # "None"
    /\ Len(calls) = 2
    /\ Sequential(1)
    /\ calls[1].state = "returned" /\ calls[1].ran
    /\ calls[2].state = "returned" /\ ~calls[2].ran

\* C7: a set() made once the Var's disposed flag is true enqueues nothing.
C7_NoNotifyAfterDispose ==
    [][(lastOp' = "set" /\ disposed[lastSet'.var]) => enqueued' = enqueued]_vars

\* C8: Weak observation.  An observer that has been collected is in no Var's
\* observer set, and no QueueItem refers to it: no later set enqueues it.
C8_WeakObservation ==
    \A o \in collected :
        /\ \A v \in VarIds : o \notin observers[v]
        /\ o \notin PendingIds

\* an observer was notified once and then collected, and a later set has
\* notified the observer that is left
C8_Witness ==
    \E o \in collected :
        /\ \E n \in DOMAIN enqueued : enqueued[n].id = o
        /\ lastOp = "set"
        /\ observers[1] # {}
        /\ \E i \in DOMAIN queue : queue[i].id \in observers[1]

Returned(v) == \E c \in CallsOn(v) : calls[c].state = "returned"

-----------------------------------------------------------------------------
(* The background-task control (src/sdupy/widgets/pyqtgraph.py):           *)
(* TaskParameter with its asyncio task and its show_progress tasks, and    *)
(* the progress bar and button of TaskParameterItem.  sigValueChanged is   *)
(* connected directly to TaskParameterItem.refresh, so emitting it runs    *)
(* refresh before emit returns.                                            *)

MaxLaunches == 2

Maximum == 1000

ProgressValues == {0, 1}
Statuses == {"", "half"}
Messages == {"boom"}

\* a task made by asyncio.ensure_future(self.run_task()); it has not run yet
NewParamTask ==
    [state |-> "pending", must_cancel |-> FALSE, cancelled |-> FALSE,
     exception |-> "None"]

\* Task.done()
TaskDone(t) == paramTasks[t].state = "done"

ActiveParamTasks == {t \in DOMAIN paramTasks : ~TaskDone(t)}

\* Progress(): nothing reported yet
Progress == [_progress |-> 0, _current_status |-> ""]

TaskParameter == [task |-> paramTask, tasks |-> paramTasks]

start_or_stop_relaunch(self) ==
    [task |-> Len(self.tasks) + 1, tasks |-> Append(self.tasks, NewParamTask)]

start_or_stop(self) ==
    IF self.task # 0 /\ self.tasks[self.task].state # "done"
    THEN [self EXCEPT !.tasks[self.task].must_cancel = TRUE]
    ELSE [task |-> Len(self.tasks) + 1,
          tasks |-> Append(self.tasks, NewParamTask)]

TaskParameterItem == [progress_bar |-> progress_bar,
                      start_stop_button |-> start_stop_button]

\* a refresh that reports every finished task the same way
refresh_done(item, progress, current, ts) ==
    IF progress = <<>> \/ current = 0
    THEN [progress_bar |-> [value |-> 0, format |-> ""],
          start_stop_button |-> "start"]
    ELSE IF ts[current].state = "done"
    THEN [progress_bar |-> [item.progress_bar EXCEPT !.format = "done"],
          start_stop_button |-> "start"]
    ELSE [progress_bar |->
            [value |-> progress[1]._progress * Maximum,
             format |-> "%p% " \o progress[1]._current_status],
          start_stop_button |-> "cancel"]

\* a refresh that does not look at the exception of a finished task
refresh_unchecked(item, progress, current, ts) ==
    IF progress = <<>> \/ current = 0
    THEN [progress_bar |-> [value |-> 0, format |-> ""],
          start_stop_button |-> "start"]
    ELSE IF ts[current].state = "done"
    THEN [progress_bar |->
            IF ts[current].cancelled
            THEN [item.progress_bar EXCEPT !.format = "cancelled"]
            ELSE [value |-> Maximum, format |-> "finished"],
          start_stop_button |-> "start"]
    ELSE [progress_bar |->
            [value |-> progress[1]._progress * Maximum,
             format |-> "%p% " \o progress[1]._current_status],
          start_stop_button |-> "cancel"]

\* TaskParameterItem.refresh(param, val), with param.progress_tracker,
\* param.task and the tasks as they are when the signal is emitted
refresh(item, progress, current, ts) ==
    IF progress = <<>> \/ current = 0
    THEN [progress_bar |-> [value |-> 0, format |-> ""],
          start_stop_button |-> "start"]
    ELSE IF ts[current].state = "done"
    THEN [progress_bar |->
            IF ts[current].cancelled
            THEN [item.progress_bar EXCEPT !.format = "cancelled"]
            ELSE IF ts[current].exception # "None"
            THEN [item.progress_bar EXCEPT
                    !.format = "error: " \o ts[current].exception]
            ELSE [value |-> Maximum, format |-> "finished"],
          start_stop_button |-> "start"]
    ELSE [progress_bar |->
            [value |-> progress[1]._progress * Maximum,
             format |-> "%p% " \o progress[1]._current_status],
          start_stop_button |-> "cancel"]

\* self.sigValueChanged.emit(self, None)
Emit(progress, current, ts) ==
    LET item == refresh(TaskParameterItem, progress, current, ts)
    IN  /\ progress_bar' = item.progress_bar
        /\ start_stop_button' = item.start_stop_button

\* buttonClicked: the user clicks the start/cancel button
ButtonClicked ==
    LET self == start_or_stop(TaskParameter)
    IN  /\ paramTask' = self.task
        /\ paramTasks' = self.tasks
        /\ lastOp' = "start_or_stop"
        /\ UNCHANGED <<progress_tracker, refreshers, progress_bar,
                       start_stop_button>>
        /\ UNCHANGED <<loopVars, varVars, callerVars, logVars, treeVars, inspectorVars>>

\* run_task, from its start to the await of asyncio.sleep(0.001)
RunTaskStarts(t) ==
    /\ paramTasks[t].state = "pending"
    /\ ~paramTasks[t].must_cancel
    /\ progress_tracker' = <<Progress>>
    /\ paramTasks' = [paramTasks EXCEPT ![t].state = "sleeping"]
    /\ Emit(progress_tracker', paramTask, paramTasks')
    /\ refreshers' = Append(refreshers, [state |-> "sleeping", launch |-> t])
    /\ lastOp' = "run_task"
    /\ UNCHANGED paramTask
    /\ UNCHANGED <<loopVars, varVars, callerVars, logVars, treeVars, inspectorVars>>

\* the sleep is over and run_task calls self.func(self.progress_tracker)
RunTaskCallsFunc(t) ==
    /\ paramTasks[t].state = "sleeping"
    /\ ~paramTasks[t].must_cancel
    /\ paramTasks' = [paramTasks EXCEPT ![t].state = "running"]
    /\ lastOp' = "run_task"
    /\ UNCHANGED <<paramTask, progress_tracker, refreshers, progress_bar,
                   start_stop_button>>
    /\ UNCHANGED <<loopVars, varVars, callerVars, logVars, treeVars, inspectorVars>>

\* the user function reports on the tracker it was given
FuncReports(t, progress, status) ==
    /\ paramTasks[t].state = "running"
    /\ ~paramTasks[t].must_cancel
    /\ progress_tracker' =
        <<[_progress |-> progress, _current_status |-> status]>>
    /\ progress_tracker' # progress_tracker
    /\ lastOp' = "func"
    /\ UNCHANGED <<paramTask, paramTasks, refreshers, progress_bar,
                   start_stop_button>>
    /\ UNCHANGED <<loopVars, varVars, callerVars, logVars, treeVars, inspectorVars>>

\* the user function returns, and run_task with it
FuncReturns(t) ==
    /\ paramTasks[t].state = "running"
    /\ ~paramTasks[t].must_cancel
    /\ paramTasks' = [paramTasks EXCEPT ![t].state = "done"]
    /\ lastOp' = "func"
    /\ UNCHANGED <<paramTask, progress_tracker, refreshers, progress_bar,
                   start_stop_button>>
    /\ UNCHANGED <<loopVars, varVars, callerVars, logVars, treeVars, inspectorVars>>

\* the user function raises: run_task has no handler, the task keeps it
FuncRaises(t, message) ==
    /\ paramTasks[t].state = "running"
    /\ ~paramTasks[t].must_cancel
    /\ paramTasks' = [paramTasks EXCEPT ![t].state = "done",
                                        ![t].exception = message]
    /\ lastOp' = "func"
    /\ UNCHANGED <<paramTask, progress_tracker, refreshers, progress_bar,
                   start_stop_button>>
    /\ UNCHANGED <<loopVars, varVars, callerVars, logVars, treeVars, inspectorVars>>

\* the next step of a task on which cancel() was called throws
\* CancelledError into run_task; a task that has not started yet ends
\* without running any statement of run_task
RunTaskCancelled(t) ==
    /\ paramTasks[t].state # "done"
    /\ paramTasks[t].must_cancel
    /\ paramTasks' = [paramTasks EXCEPT ![t].state = "done",
                                        ![t].must_cancel = FALSE,
                                        ![t].cancelled = TRUE]
    /\ lastOp' = "run_task"
    /\ UNCHANGED <<paramTask, progress_tracker, refreshers, progress_bar,
                   start_stop_button>>
    /\ UNCHANGED <<loopVars, varVars, callerVars, logVars, treeVars, inspectorVars>>

\* show_progress: one turn of its loop, after asyncio.sleep(0.1)
ShowProgress(r) ==
    /\ refreshers[r].state = "sleeping"
    /\ Emit(progress_tracker, paramTask, paramTasks)
    /\ refreshers' = IF TaskDone(paramTask)
                     THEN [refreshers EXCEPT ![r].state = "done"]
                     ELSE refreshers
    /\ lastOp' = "show_progress"
    /\ UNCHANGED <<paramTask, paramTasks, progress_tracker>>
    /\ UNCHANGED <<loopVars, varVars, callerVars, logVars, treeVars, inspectorVars>>

InitTaskParam == RefresherInit /\ NoVars /\ WidgetsInit

NextTaskParam ==
    \/ /\ Len(paramTasks) < MaxLaunches \/ ActiveParamTasks # {}
       /\ ButtonClicked
    \/ \E t \in DOMAIN paramTasks : RunTaskStarts(t)
    \/ \E t \in DOMAIN paramTasks : RunTaskCallsFunc(t)
    \/ \E t \in DOMAIN paramTasks, progress \in ProgressValues,
          status \in Statuses : FuncReports(t, progress, status)
    \/ \E t \in DOMAIN paramTasks : FuncReturns(t)
    \/ \E t \in DOMAIN paramTasks, message \in Messages : FuncRaises(t, message)
    \/ \E t \in DOMAIN paramTasks : RunTaskCancelled(t)
    \/ \E r \in DOMAIN refreshers : ShowProgress(r)

\* The event loop runs every step that is ready: a task that can take its
\* next step takes it, and a sleep that is over wakes its task.  Nothing
\* makes the user click, report or finish.
FairTaskParam ==
    /\ \A t \in 1..MaxLaunches :
        WF_vars(t \in DOMAIN paramTasks /\ RunTaskStarts(t))
    /\ \A t \in 1..MaxLaunches :
        WF_vars(t \in DOMAIN paramTasks /\ RunTaskCallsFunc(t))
    /\ \A t \in 1..MaxLaunches :
        WF_vars(t \in DOMAIN paramTasks /\ RunTaskCancelled(t))
    /\ \A r \in 1..MaxLaunches :
        WF_vars(r \in DOMAIN refreshers /\ ShowProgress(r))

SpecTaskParam == InitTaskParam /\ [][NextTaskParam]_vars /\ FairTaskParam

(* Properties of the background-task control *)

\* the step is a click on the button
Clicked == lastOp' = "start_or_stop"

\* C11: whatever the clicks, a click cancels the current task when there is
\* one that is not done and launches a new task otherwise, and at no time
\* are two launched tasks both not done.
C11_OneTaskAtATime ==
    /\ [](Cardinality(ActiveParamTasks) <= 1)
    /\ [][Clicked =>
            IF paramTask # 0 /\ ~TaskDone(paramTask)
            THEN /\ paramTask' = paramTask
                 /\ paramTasks' =
                        [paramTasks EXCEPT ![paramTask].must_cancel = TRUE]
            ELSE /\ paramTask' = Len(paramTasks) + 1
                 /\ paramTasks' = Append(paramTasks, NewParamTask)]_vars

\* the first task was cancelled by a click while the user function was
\* running, and a later click has launched the second task
C11_Witness ==
    /\ Len(paramTasks) = 2
    /\ paramTasks[1].cancelled
    /\ progress_tracker # <<>>
    /\ paramTask = 2
    /\ paramTasks[2].state = "pending"
    /\ lastOp = "start_or_stop"

\* no task has a step to take and no show_progress task is left: only a
\* click can change anything
TaskParamQuiet ==
    /\ \A t \in DOMAIN paramTasks : TaskDone(t)
    /\ \A r \in DOMAIN refreshers : refreshers[r].state = "done"

\* C12: a click on a launched task that is not done, also one that comes
\* before the task has run its first step, leads to the caption "cancelled"
\* and the button text "start": when the task has ended cancelled and
\* nothing is left to run, that is what the control displays.
C12_CancelledShown ==
    (TaskParamQuiet /\ paramTask # 0 /\ paramTasks[paramTask].cancelled) =>
        /\ progress_bar.format = "cancelled"
        /\ start_stop_button = "start"

FinishedNormally(t) ==
    /\ t \in DOMAIN paramTasks
    /\ TaskDone(t)
    /\ ~paramTasks[t].cancelled
    /\ paramTasks[t].exception = "None"

ShowsFinished ==
    /\ progress_bar = [value |-> Maximum, format |-> "finished"]
    /\ start_stop_button = "start"

\* C13: while the current task is running (it has run its first step and
\* is not done) the button reads "cancel" and the caption is a status of
\* the tracker; when the user function has returned, the control comes to
\* show the bar at its maximum, "finished" and "start" unless a click
\* launches the next task first, and it goes on showing that until a click.
C13_Success ==
    /\ [](\A t \in DOMAIN paramTasks :
            (paramTask = t /\ paramTasks[t].state \in {"sleeping", "running"})
                => /\ start_stop_button = "cancel"
                   /\ \E status \in Statuses :
                        progress_bar.format = "%p% " \o status)
    /\ \A t \in 1..MaxLaunches :
            (FinishedNormally(t) /\ paramTask = t)
                ~> (ShowsFinished \/ paramTask # t)
    /\ [][(ShowsFinished /\ FinishedNormally(paramTask) /\ ~Clicked)
            => ShowsFinished']_vars

\* the user function reported "half" and all of the work, then returned,
\* and the show_progress task has shown that and ended
C13_Witness ==
    /\ paramTask = 1
    /\ FinishedNormally(1)
    /\ progress_tracker = <<[_progress |-> 1, _current_status |-> "half"]>>
    /\ ShowsFinished
    /\ TaskParamQuiet

Failed(t) ==
    /\ t \in DOMAIN paramTasks
    /\ TaskDone(t)
    /\ paramTasks[t].exception # "None"

ShowsError(t) ==
    /\ t \in DOMAIN paramTasks
    /\ progress_bar.format = "error: " \o paramTasks[t].exception
    /\ start_stop_button = "start"

\* C14: when the user function has raised, the task is done and holds the
\* exception, the control comes to show "error: <message>" and "start"
\* unless a click launches the next task first, the Refresher sees nothing
\* of it, and a click on the failed task launches a new task.
C14_Error ==
    /\ \A t \in 1..MaxLaunches :
            (Failed(t) /\ paramTask = t) ~> (ShowsError(t) \/ paramTask # t)
    /\ [](loopErrors = <<>> /\ tasks = <<>> /\ queue = <<>>)
    /\ [][(Failed(paramTask) /\ Clicked) =>
            /\ paramTask' = Len(paramTasks) + 1
            /\ paramTasks' = Append(paramTasks, NewParamTask)]_vars

\* the first task failed, the control showed the error, and a click has
\* launched the second task
C14_Witness ==
    /\ Len(paramTasks) = 2
    /\ Failed(1)
    /\ ShowsError(1)
    /\ paramTask = 2
    /\ lastOp = "start_or_stop"

-----------------------------------------------------------------------------
(* The log viewer's model (src/sdupy/widgets/tables.py): LogRecordsModel,  *)
(* a logging.Handler installed on the root logger.  The records are        *)
(* numbered in the order in which emit handles them, and the list is held  *)
(* run-length encoded: the element [from |-> a, to |-> b] stands for the   *)
(* records a, a + 1, ..., b next to each other in the list.                *)

MaxEmits == 60

records_limit == 100000
chunk_size == 10
heartbeat_every == 10

Max(a, b) == IF a >= b THEN a ELSE b

\* len(records)
RECURSIVE Length(_)
Length(rs) ==
    IF rs = <<>> THEN 0 ELSE rs[1].to - rs[1].from + 1 + Length(Tail(rs))

\* records.append(record)
AppendRecord(rs, record) ==
    IF rs # <<>> /\ rs[Len(rs)].to + 1 = record
    THEN [rs EXCEPT ![Len(rs)].to = record]
    ELSE Append(rs, [from |-> record, to |-> record])

\* del records[-n:], the newest records instead of the oldest
RECURSIVE DeleteLast(_, _)
DeleteLast(rs, n) ==
    IF n = 0 \/ rs = <<>> THEN rs
    ELSE IF rs[Len(rs)].to - rs[Len(rs)].from + 1 <= n
    THEN DeleteLast(SubSeq(rs, 1, Len(rs) - 1),
                    n - (rs[Len(rs)].to - rs[Len(rs)].from + 1))
    ELSE [rs EXCEPT ![Len(rs)].to = rs[Len(rs)].to - n]

\* del records[0:n]
RECURSIVE DeleteFirst(_, _)
DeleteFirst(rs, n) ==
    IF n = 0 \/ rs = <<>> THEN rs
    ELSE IF rs[1].to - rs[1].from + 1 <= n
    THEN DeleteFirst(Tail(rs), n - (rs[1].to - rs[1].from + 1))
    ELSE <<[rs[1] EXCEPT !.from = rs[1].from + n]>> \o Tail(rs)

LogRecordsModel == [records |-> records, handled |-> handled, peak |-> peak]

\* emit with a heartbeat that is also logged one record after a multiple
\* of 10
RECURSIVE emit_chatty(_)
emit_chatty(self) ==
    LET trimmed == IF Length(self.records) > records_limit
                   THEN DeleteFirst(self.records, chunk_size)
                   ELSE self.records
        appended == AppendRecord(trimmed, self.handled + 1)
        after == [records |-> appended,
                  handled |-> self.handled + 1,
                  peak |-> Max(self.peak, Length(appended))]
    IN  IF Length(appended) % heartbeat_every \in {0, 1}
        THEN emit_chatty(after)
        ELSE after

\* LogRecordsModel.emit(record): trim, append, and when the length is a
\* multiple of 10 logging.fatal(...), which the root logger hands to this
\* handler again before emit returns
RECURSIVE emit(_)
emit(self) ==
    LET trimmed == IF Length(self.records) > records_limit
                   THEN DeleteFirst(self.records, chunk_size)
                   ELSE self.records
        appended == AppendRecord(trimmed, self.handled + 1)
        after == [records |-> appended,
                  handled |-> self.handled + 1,
                  peak |-> Max(self.peak, Length(appended))]
    IN  IF Length(appended) % heartbeat_every = 0
        THEN emit(after)
        ELSE after

\* a record is logged somewhere in the process and reaches the handler
Handle ==
    LET self == emit(LogRecordsModel)
    IN  /\ records' = self.records
        /\ handled' = self.handled
        /\ peak' = self.peak
        /\ lastOp' = "emit"
        /\ UNCHANGED <<loopVars, varVars, callerVars, taskParamVars, treeVars,
                       inspectorVars>>

\* the model after n records, none trimmed yet
Filled(n) ==
    /\ records = <<[from |-> 1, to |-> n]>>
    /\ handled = n
    /\ peak = n

\* The log model, new or one record short of its limit
Prefilled == records_limit - 1

InitLog ==
    /\ RefresherInit /\ NoVars /\ TaskParameterInit
    /\ VarsModelInit
    /\ DataTreeInit(Table(<<>>, <<>>))
    /\ LogRecordsInit \/ Filled(Prefilled)

\* fewer than MaxEmits records were handled since the initial state
MayEmit == handled < MaxEmits \/ handled - Prefilled \in 0..(MaxEmits - 1)

NextLog ==
    \/ MayEmit /\ Handle

SpecLog == InitLog /\ [][NextLog]_vars

\* C15: the model never holds more than records_limit records, at the end
\* of an emit or inside it.
C15_RecordsCap ==
    Length(records) <= records_limit /\ peak <= records_limit

-----------------------------------------------------------------------------
(* The structured-data table's model (src/sdupy/widgets/tables.py):        *)
(* DataTreeModel with its remembered sort keys and its filter.  A table    *)
(* stands for a pandas DataFrame; on tables this small sort_values keeps   *)
(* rows that are equal on every key in the order it found them.            *)

MaxColumns == 6

max_sort_columns == 5

\* the values of _query: None, the empty string, a filter on column 1, a
\* filter on column 2, and an expression that does not parse
Queries == {"None", "", "c1 > 0", "c2 > 0", "c1 >"}

\* the column that a filter names
FilterColumn(expr) == IF expr = "c2 > 0" THEN 2 ELSE 1

Names(columns) == {columns[i] : i \in DOMAIN columns}

IndexOf(columns, name) == CHOOSE i \in DOMAIN columns : columns[i] = name

Reversed(seq) == [i \in 1..Len(seq) |-> seq[Len(seq) + 1 - i]]

\* list(filter(lambda t: t[0] != column_name, keys))
RECURSIVE Without(_, _)
Without(keys, column_name) ==
    IF keys = <<>> THEN <<>>
    ELSE IF keys[1][1] = column_name THEN Without(Tail(keys), column_name)
    ELSE <<keys[1]>> \o Without(Tail(keys), column_name)

\* row a comes before row b under the keys by, the first key first
RECURSIVE Precedes(_, _, _, _)
Precedes(a, b, columns, by) ==
    IF by = <<>> THEN FALSE
    ELSE LET i == IndexOf(columns, by[1][1])
         IN  IF a[i] = b[i] THEN Precedes(a, b, columns, Tail(by))
             ELSE IF by[1][2] THEN a[i] < b[i] ELSE a[i] > b[i]

RECURSIVE Insert(_, _, _, _)
Insert(sorted, row, columns, by) ==
    IF sorted = <<>> THEN <<row>>
    ELSE IF Precedes(row, sorted[1], columns, by) THEN <<row>> \o sorted
    ELSE <<sorted[1]>> \o Insert(Tail(sorted), row, columns, by)

RECURSIVE SortRows(_, _, _)
SortRows(rows, columns, by) ==
    IF rows = <<>> THEN <<>>
    ELSE Insert(SortRows(SubSeq(rows, 1, Len(rows) - 1), columns, by),
                rows[Len(rows)], columns, by)

\* DataFrame.sort_values(by=cols, ascending=orders) raises KeyError
SortRaises(table, by) ==
    \E i \in DOMAIN by : by[i][1] \notin Names(table.columns)

\* DataFrame.sort_values(by=cols, ascending=orders)
sort_values(table, by) ==
    [table EXCEPT !.rows = SortRows(table.rows, table.columns, by)]

\* DataFrame.query(expr) raises
QueryRaises(table, expr) ==
    \/ expr = "c1 >"
    \/ FilterColumn(expr) \notin Names(table.columns)

\* DataFrame.query("c1 > 0") and DataFrame.query("c2 > 0")
query_rows(table, expr) ==
    [table EXCEPT !.rows =
        SelectSeq(table.rows,
            LAMBDA row : row[IndexOf(table.columns, FilterColumn(expr))] > 0)]

DataTreeModel ==
    [original_data |-> original_data, data |-> tree_data,
     query_is_ok |-> query_is_ok, sort_columns |-> sort_columns,
     query |-> query, escaped |-> FALSE]

\* a rebuild_data without its try: the exception leaves it
rebuild_data_unguarded(self) ==
    LET by == Reversed(self.sort_columns)
        start == [self EXCEPT !.data = self.original_data,
                              !.query_is_ok = TRUE]
    IN  IF self.sort_columns # <<>> /\ SortRaises(self.original_data, by)
        THEN [start EXCEPT !.escaped = TRUE]
        ELSE LET sorted == IF self.sort_columns # <<>>
                           THEN sort_values(self.original_data, by)
                           ELSE self.original_data
                 ordered == [start EXCEPT !.data = sorted,
                                          !.query_is_ok = FALSE]
             IN  IF self.query \in {"None", ""} THEN ordered
                 ELSE IF QueryRaises(sorted, self.query)
                 THEN [ordered EXCEPT !.escaped = TRUE]
                 ELSE [ordered EXCEPT !.data = query_rows(sorted, self.query),
                                      !.query_is_ok = TRUE]

\* DataTreeModel.rebuild_data()
rebuild_data(self) ==
    LET by == Reversed(self.sort_columns)
        start == [self EXCEPT !.data = self.original_data,
                              !.query_is_ok = TRUE]
    IN  IF self.sort_columns # <<>> /\ SortRaises(self.original_data, by)
        THEN start
        ELSE LET sorted == IF self.sort_columns # <<>>
                           THEN sort_values(self.original_data, by)
                           ELSE self.original_data
                 ordered == [start EXCEPT !.data = sorted,
                                          !.query_is_ok = FALSE]
             IN  IF self.query \in {"None", ""} THEN ordered
                 ELSE IF QueryRaises(sorted, self.query) THEN ordered
                 ELSE [ordered EXCEPT !.data = query_rows(sorted, self.query),
                                      !.query_is_ok = TRUE]

\* pop(0) while the list is longer than 5
RECURSIVE PopFirst(_)
PopFirst(keys) ==
    IF Len(keys) > max_sort_columns THEN PopFirst(Tail(keys)) ELSE keys

\* a sort that drops the newest keys when the list is too long
sort_pop_last(self, column, order) ==
    LET column_name == self.original_data.columns[column]
        keys == Append(Without(self.sort_columns, column_name),
                       <<column_name, order>>)
    IN  rebuild_data([self EXCEPT !.sort_columns =
            SubSeq(keys, 1, IF Len(keys) > max_sort_columns
                            THEN max_sort_columns ELSE Len(keys))])

\* DataTreeModel.sort(column, order); order stands for
\* order == Qt.AscendingOrder
sort(self, column, order) ==
    LET column_name == self.original_data.columns[column]
        keys == Append(Without(self.sort_columns, column_name),
                       <<column_name, order>>)
    IN  rebuild_data([self EXCEPT !.sort_columns = PopFirst(keys)])

\* DataTreeModel.set_query(query)
set_query(self, expr) == rebuild_data([self EXCEPT !.query = expr])

\* DataTreeModel.set_data(data)
set_data(self, table) == rebuild_data([self EXCEPT !.original_data = table])

Store(self) ==
    /\ original_data' = self.original_data
    /\ tree_data' = self.data
    /\ query_is_ok' = self.query_is_ok
    /\ sort_columns' = self.sort_columns
    /\ query' = self.query
    /\ escaped' = self.escaped

\* the columns clicked so far, the latest click last
Clicks(column_name) ==
    Append(SelectSeq(recency, LAMBDA c : c # column_name), column_name)

\* the user clicks a column header: the view calls sort
Sort(column, order) ==
    /\ column \in DOMAIN original_data.columns
    /\ Store(sort(DataTreeModel, column, order))
    /\ recency' = Clicks(original_data.columns[column])
    /\ lastOp' = "sort"
    /\ UNCHANGED <<loopVars, varVars, callerVars, taskParamVars, logVars, inspectorVars>>

SetQuery(expr) ==
    /\ Store(set_query(DataTreeModel, expr))
    /\ lastOp' = "set_query"
    /\ UNCHANGED recency
    /\ UNCHANGED <<loopVars, varVars, callerVars, taskParamVars, logVars, inspectorVars>>

SetData(table) ==
    /\ Store(set_data(DataTreeModel, table))
    /\ lastOp' = "set_data"
    /\ UNCHANGED recency
    /\ UNCHANGED <<loopVars, varVars, callerVars, taskParamVars, logVars, inspectorVars>>

\* a table with MaxColumns columns
WideTable ==
    Table([c \in 1..MaxColumns |-> c],
          <<[c \in 1..MaxColumns |-> c % 2],
            [c \in 1..MaxColumns |-> (c + 1) % 2],
            [c \in 1..MaxColumns |-> IF c < 3 THEN 1 ELSE 0]>>)

InitSort ==
    /\ RefresherInit /\ NoVars /\ TaskParameterInit /\ LogRecordsInit
    /\ VarsModelInit
    /\ DataTreeInit(WideTable)

\* Clicks on the column headers of a wide table.  Which keys are kept does
\* not depend on their order, so every click here asks for the ascending
\* order; NextTree has both orders.
NextSort ==
    \/ \E column \in 1..MaxColumns : Sort(column, TRUE)

SpecSort == InitSort /\ [][NextSort]_vars

InitTree ==
    /\ RefresherInit /\ NoVars /\ TaskParameterInit /\ LogRecordsInit
    /\ VarsModelInit
    /\ \E table \in Tables : DataTreeInit(table)

\* Clicks, filters and new data on a narrow table
NextTree ==
    \/ \E column \in 1..3, order \in BOOLEAN : Sort(column, order)
    \/ \E expr \in Queries : SetQuery(expr)
    \/ \E table \in Tables : SetData(table)

SpecTree == InitTree /\ [][NextTree]_vars

(* Properties of the structured-data table *)

KeyNames == [i \in DOMAIN sort_columns |-> sort_columns[i][1]]

\* the last n elements of seq
Last(seq, n) == SubSeq(seq, Len(seq) - n + 1, Len(seq))

\* C16: the list of sort keys never holds more than 5 entries nor two
\* entries for one column, and it holds the keys of the columns clicked
\* most recently, the latest last: a click on a sixth column drops the key
\* of the column whose last click is the oldest.
C16_SortKeyCap ==
    /\ Len(sort_columns) <= max_sort_columns
    /\ \A i, j \in DOMAIN sort_columns : i # j => KeyNames[i] # KeyNames[j]
    /\ KeyNames = Last(recency, IF Len(recency) > max_sort_columns
                                THEN max_sort_columns ELSE Len(recency))

\* six columns were clicked, and the key of the first one clicked is gone
C16_Witness ==
    /\ Len(recency) = 6
    /\ Len(sort_columns) = max_sort_columns
    /\ recency[1] \notin Names(KeyNames)
    /\ lastOp = "sort"

\* the filter is set, the sort works and evaluating the filter raises
FilterRaises ==
    /\ query \notin {"None", ""}
    /\ ~SortRaises(original_data, sort_columns)
    /\ QueryRaises(original_data, query)

\* C17: when evaluating the filter raises in rebuild_data, no exception
\* leaves the call, the data displayed is the original data sorted by the
\* remembered keys and not filtered, and query_is_ok is false.
C17_InvalidFilterFallback ==
    FilterRaises =>
        /\ ~escaped
        /\ tree_data = sort_values(original_data, Reversed(sort_columns))
        /\ ~query_is_ok

\* an expression that does not parse is the filter of a table that two
\* sort keys have put in another order
C17_Witness ==
    /\ query = "c1 >"
    /\ Len(sort_columns) = 2
    /\ tree_data # original_data
    /\ Len(tree_data.rows) = Len(original_data.rows)

-----------------------------------------------------------------------------
(* The variable inspector's model (src/sdupy/widgets/tables.py):           *)
(* VarsModel, whose rows are VarInList tuples.  The variables are those of *)
(* the sdupy package: set stores a value, set_exception stores an          *)
(* exception in place of the value.                                        *)

TypedValues == {"7", "x"}

VarInList(title, var, to_value) ==
    [title |-> title, var |-> var, to_value |-> to_value]

\* VarsModel.remove_var(title)
remove_var(rows, title) == SelectSeq(rows, LAMBDA item : item.title # title)

\* an insert_var that leaves the rows it finds
insert_var_append(rows, title, var, to_value) ==
    Append(rows, VarInList(title, var, to_value))

\* VarsModel.insert_var(title, var, to_value)
insert_var(rows, title, var, to_value) ==
    Append(remove_var(rows, title), VarInList(title, var, to_value))

\* item.to_value(value): int and str as Python has them, and None, which
\* display_variable passes by default and which cannot be called
Convert(to_value, value) ==
    IF to_value = "int"
    THEN IF value = "7" THEN Holds("value", "int", "7")
         ELSE Holds("exception", "ValueError", value)
    ELSE IF to_value = "str" THEN Holds("value", "str", value)
    ELSE Holds("exception", "TypeError", value)

\* var.set(converted_value), which stores the value or raises
Set_(converted, set_raises) ==
    IF set_raises THEN Holds("exception", "RuntimeError", converted.repr)
    ELSE converted

\* a setData without its try: the exception leaves it
setData_unguarded(self, row, value, set_raises) ==
    LET item == self.vars[row]
        converted == Convert(item.to_value, value)
        result == IF converted.kind = "exception" THEN converted
                  ELSE Set_(converted, set_raises)
    IN  IF result.kind = "exception"
        THEN [self EXCEPT !.escaped = TRUE]
        ELSE [self EXCEPT !.cells[item.var] = result]

\* VarsModel.setData(index, value, role) on the valid row index.row():
\* what conversion or set raises goes to var.set_exception
setData(self, row, value, set_raises) ==
    LET item == self.vars[row]
        converted == Convert(item.to_value, value)
        result == IF converted.kind = "exception" THEN converted
                  ELSE Set_(converted, set_raises)
    IN  [self EXCEPT !.cells[item.var] = result]

VarsModel == [vars |-> var_rows, cells |-> cells, escaped |-> FALSE]

InsertVar(title, var, to_value) ==
    /\ var_rows' = insert_var(var_rows, title, var, to_value)
    /\ lastInsert' = [lastInsert EXCEPT ![title] =
                        [var |-> var, to_value |-> to_value]]
    /\ lastOp' = "insert_var"
    /\ UNCHANGED <<cells, lastEdit>>
    /\ UNCHANGED <<loopVars, varVars, callerVars, taskParamVars, logVars, treeVars>>

RemoveVar(title) ==
    /\ var_rows' = remove_var(var_rows, title)
    /\ lastOp' = "remove_var"
    /\ UNCHANGED <<cells, lastInsert, lastEdit>>
    /\ UNCHANGED <<loopVars, varVars, callerVars, taskParamVars, logVars, treeVars>>

\* VarsModel.clear()
Clear ==
    /\ var_rows' = <<>>
    /\ lastOp' = "clear"
    /\ UNCHANGED <<cells, lastInsert, lastEdit>>
    /\ UNCHANGED <<loopVars, varVars, callerVars, taskParamVars, logVars, treeVars>>

\* the user edits the value cell of a row
SetDataCall(row, value, set_raises) ==
    /\ row \in DOMAIN var_rows
    /\ LET self == setData(VarsModel, row, value, set_raises)
       IN  /\ cells' = self.cells
           /\ lastEdit' = [row |-> row, value |-> value,
                           set_raises |-> set_raises,
                           escaped |-> self.escaped]
    /\ lastOp' = "setData"
    /\ UNCHANGED <<var_rows, lastInsert>>
    /\ UNCHANGED <<loopVars, varVars, callerVars, taskParamVars, logVars, treeVars>>

InitVarsModel == RefresherInit /\ NoVars /\ WidgetsInit

NextVarsModel ==
    \/ \E title \in Titles, var \in InspectedVars, to_value \in Conversions :
        InsertVar(title, var, to_value)
    \/ \E title \in Titles : RemoveVar(title)
    \/ Clear
    \/ \E row \in 1..Cardinality(Titles), value \in TypedValues,
          set_raises \in BOOLEAN : SetDataCall(row, value, set_raises)

SpecVarsModel == InitVarsModel /\ [][NextVarsModel]_vars

(* Properties of the variable inspector *)

\* C18: no two rows have the same title, and the row of a title holds the
\* variable and the conversion function of the latest insert_var for it.
C18_UniqueTitles ==
    /\ \A i, j \in DOMAIN var_rows :
            i # j => var_rows[i].title # var_rows[j].title
    /\ \A i \in DOMAIN var_rows :
            /\ var_rows[i].var = lastInsert[var_rows[i].title].var
            /\ var_rows[i].to_value = lastInsert[var_rows[i].title].to_value

\* a title was inserted again, with another variable and another
\* conversion function, while another title had a row
C18_Witness ==
    /\ Len(var_rows) = 2
    /\ var_rows[1].title = "t2"
    /\ var_rows[2] = VarInList("t1", "v2", "str")
    /\ lastOp = "insert_var"

\* the row edited by the step
Edited == var_rows[lastEdit'.row]

\* C19: setData on a valid row converts the string with the row's to_value
\* and sets the variable to the result; when the conversion or set raises,
\* the variable holds the exception instead of a plain value; and no
\* exception leaves setData.
C19_EditIsCaptured ==
    [][lastOp' = "setData" =>
        LET converted == Convert(Edited.to_value, lastEdit'.value)
        IN  /\ ~lastEdit'.escaped
            /\ IF converted.kind = "value" /\ ~lastEdit'.set_raises
               THEN cells'[Edited.var] = converted
               ELSE cells'[Edited.var].kind = "exception"]_vars

\* "x" was typed into a row whose to_value is int, and the variable of
\* the row holds the ValueError
C19_Witness ==
    /\ lastOp = "setData"
    /\ lastEdit.value = "x"
    /\ ~lastEdit.set_raises
    /\ \E i \in DOMAIN var_rows :
        /\ i = lastEdit.row
        /\ var_rows[i].to_value = "int"
        /\ cells[var_rows[i].var] = Holds("exception", "ValueError", "x")

-----------------------------------------------------------------------------
(* Coalescing and the order of the queue *)

\* C20: an update is skipped only when the update enqueued right after it
\* has the same identity; so of two updates with the same identity that
\* have an update with another identity enqueued between them, both are
\* awaited once the loop has drained the queue.
C20_OnlyBackToBackMerged ==
    /\ \A n \in skipped : SameIdFollows(n)
    /\ (Quiet /\ NoAbort) =>
            \A n \in DOMAIN enqueued : ~SameIdFollows(n) => n \in Awaited

-----------------------------------------------------------------------------
(* Liveness of the Refresher *)

\* the step in which the loop task t finishes
Finishes(t) == t \in DOMAIN tasks /\ ~Done(t) /\ tasks'[t].state = "finished"

\* C21: with awaitables that terminate and a loop task that is not
\* cancelled, every item enqueued is eventually awaited or skipped by the
\* coalescing rule (an item stays enqueued, awaited or skipped once it is,
\* so "infinitely often" says "eventually"), and the loop task finishes
\* only with the queue empty and without a look-ahead item.
C21_SchedulerLiveness ==
    /\ \A n \in 1..MaxLiveEnq :
            []<>(n \in DOMAIN enqueued => n \in Awaited \cup skipped)
    /\ [][\A t \in 1..MaxLiveEnq :
            Finishes(t) => /\ queue = <<>>
                           /\ queue' = <<>>
                           /\ tasks[t].update_next = NoItem]_vars

\* a first loop task has drained the queue and finished, and a second one
\* has handled what was enqueued after that
C21_Witness ==
    /\ Len(tasks) = 2
    /\ Quiet
    /\ Len(enqueued) = 3
    /\ skipped # {}
    /\ \A n \in DOMAIN enqueued : n \in Awaited \cup skipped

-----------------------------------------------------------------------------
(* Properties of overlapping disposal: src/reactive/var.py lines 110-116 *)

\* a call of dispose on v began while an earlier call on v was suspended in
\* "await self.on_dispose()"
Overlapping(v) ==
    \E c \in CallsOn(v) :
        \E b \in CallsOn(v) : b < c /\ b \notin calls[c].after

\* C22: on_dispose runs at most once under overlapping disposal.  When a
\* second dispose() call starts while the first one is suspended awaiting
\* on_dispose, and no on_dispose raises, on_dispose has been invoked at most
\* once.
C22_OverlappingDisposeOnce ==
    \A v \in VarIds :
        (/\ on_dispose[v] # "None"
         /\ Overlapping(v)
         /\ \A c \in CallsOn(v) : calls[c].state # "raised")
            => disposeRuns[v] <= 1

-----------------------------------------------------------------------------
(* Properties of the log trimming: src/sdupy/widgets/tables.py 362-376 *)

\* the number of the oldest record held (of the next one, when none is held)
Oldest == IF records = <<>> THEN handled + 1 ELSE records[1].from

\* C23: Log trimming is first-in-first-out in chunks of 10.  The records
\* held are always the most recent ones handled, next to each other in the
\* order of their arrival, and an emit that finds the model above its limit
\* removes exactly the 10 oldest records, every other emit removes none.
C23_FifoTrim ==
    /\ [](/\ Len(records) <= 1
          /\ records # <<>> => records[1].to = handled)
    /\ [][Oldest' = Oldest + (IF Length(records) > records_limit
                              THEN chunk_size ELSE 0)]_vars

\* the model was above its limit and the last emit has trimmed it
C23_Witness ==
    /\ lastOp = "emit"
    /\ Oldest = 1 + chunk_size
    /\ handled = records_limit + 2
    /\ Length(records) = records_limit + 2 - chunk_size

\* C30: Heartbeat re-entry is bounded.  One record logged from outside makes
\* emit handle that record and at most one heartbeat record (the nested
\* emit never logs a heartbeat of its own), so it adds at most two records
\* to the model.
C30_HeartbeatBounded ==
    [][/\ handled' - handled \in {1, 2}
       /\ Length(records') <= Length(records) + 2
       /\ handled' - handled = 2 =>
            Length(records') % heartbeat_every = 1]_vars

\* the tenth record arrived and its heartbeat was handled inside the emit
C30_Witness ==
    /\ lastOp = "emit"
    /\ handled = heartbeat_every + 1
    /\ Length(records) = heartbeat_every + 1

-----------------------------------------------------------------------------
(* Properties of the rebuild: src/sdupy/widgets/tables.py lines 284-314 *)

\* the last call was one of those that end with rebuild_data
Rebuilt == lastOp \in {"sort", "set_query", "set_data"}

NoFilter == query \in {"None", ""}

\* the filter applied to a table; no filter keeps every row
Filtered(table) == IF NoFilter THEN table ELSE query_rows(table, query)

\* C24: Full rebuild.  After every sort, set_query or set_data call with a
\* filter that evaluates on the data, the data displayed is the filter
\* applied to the original data sorted by all the remembered keys, the most
\* recent click first; in particular no row that the filter excludes is
\* displayed.
C24_FullRebuild ==
    (Rebuilt /\ (NoFilter \/ ~QueryRaises(original_data, query))) =>
        /\ ~SortRaises(original_data, Reversed(sort_columns)) =>
                tree_data = Filtered(sort_values(original_data,
                                                 Reversed(sort_columns)))
        /\ tree_data = Filtered(tree_data)

\* C26: after every rebuild_data, query_is_ok is true whenever no filter is
\* set or the filter evaluated without error; it is false only when the
\* current filter is invalid.
C26_QueryIsOk ==
    (Rebuilt /\ (NoFilter \/ ~QueryRaises(original_data, query))) =>
        query_is_ok

-----------------------------------------------------------------------------
(* Properties of the show_progress loop: src/sdupy/widgets/pyqtgraph.py    *)
(* lines 308-334                                                           *)

\* C25: the show_progress loop started by a launch re-signals only until
\* that launch's task has completed and then stops, whatever the clicks:
\* a turn of the loop taken when the task of its launch is done is its
\* last one, also when a click has launched a new task in the meantime.
C25_RefreshLoopStops ==
    [][\A r \in 1..MaxLaunches :
        (/\ r \in DOMAIN refreshers
         /\ ShowProgress(r)
         /\ TaskDone(refreshers[r].launch))
            => refreshers'[r].state = "done"]_vars

-----------------------------------------------------------------------------
(* Properties of a cancelled loop task: src/reactive/var.py lines 23-70 *)

\* a loop task was cancelled, none ended with an exception, and the loop
\* task started by a later add_coroutine has drained the queue and ended
Restarted ==
    /\ Quiet
    /\ queue = <<>>
    /\ \E t \in DOMAIN tasks : tasks[t].cancelled
    /\ \A t \in DOMAIN tasks : tasks[t].exception = "None"
    /\ ~tasks[task].cancelled

\* C27: No update is lost on loop cancellation.  When the loop task is
\* cancelled while it awaits an update, every item enqueued and not yet
\* awaited or coalesced, the look-ahead item included, is awaited once
\* add_coroutine has started the loop again and the new loop task has
\* drained the queue.
C27_NoUpdateLost ==
    Restarted => \A n \in DOMAIN enqueued : n \in Awaited \cup skipped

\* C28: Cancelling a task that is suspended in wait_for_var(var) does not
\* cancel the Refresher's loop task: no loop task is ever asked to cancel or
\* ends cancelled, and no update that the loop holds is dropped.
C28_WaiterCancelIsolated ==
    /\ \A t \in DOMAIN tasks : ~tasks[t].must_cancel /\ ~tasks[t].cancelled
    /\ lost = {}

-----------------------------------------------------------------------------
(* Properties of finalized Vars: src/reactive/var.py lines 98-103 *)

\* C29: when two distinct undisposed Vars whose on_dispose is the same
\* callable are finalized one right after the other, both disposal
\* coroutines that __del__ scheduled are awaited once the loop has drained
\* the queue: the coalescing rule drops neither.
C29_FinalizersNotCoalesced ==
    (Quiet /\ NoAbort /\ queue = <<>>) =>
        \A v, w \in VarIds :
            (/\ v # w
             /\ on_dispose[v] = on_dispose[w]
             /\ finalized[v].item # 0
             /\ finalized[w].item = finalized[v].item + 1)
                => {finalized[v].item, finalized[w].item} \subseteq Awaited

=============================================================================
